---- MODULE Spec2Model ----
(***************************************************************************)
(* Client-side JavaScript of SaveYjy-R: the service-worker cache layer,    *)
(* the ThemeManager, the UXEnhancer, the IconManager, the                  *)
(* ModernThemeSystem, the EnhancedAjaxHandler and the PerformanceOptimizer *)
(* (its localStorage cache, memory cache and lazy image loading), each     *)
(* modelled as a state machine translated from its source.                 *)
(*                                                                         *)
(* Strings the code inspects (URLs, header values) are sequences of        *)
(* one-character strings so that includes / startsWith / regular           *)
(* expression tests are computed as the code computes them.                *)
(* Time is Date.now() counted in seconds (the millisecond constants of     *)
(* CACHE_EXPIRY divided by 1000), because 30 days in milliseconds does not *)
(* fit the model checker's integers.                                       *)
(***************************************************************************)
EXTENDS Integers, Sequences, FiniteSets

VARIABLES
    swState,        \* service worker lifecycle: parsed / installed / activated / redundant
    caches,         \* CacheStorage: cache name -> URL -> stored response (Entry)
    now,            \* Date.now(), in seconds
    ticks,          \* number of clock advances so far (bounded by MaxTicks)
    headersGuard,   \* Headers guard of fetched / cached Response objects
    last,           \* the fetch request handled by the step just taken, and its answer
    \* ---- ThemeManager (theme-manager.js) ----
    tmExists,       \* a ThemeManager has been constructed on the current page
    currentTheme,   \* ThemeManager.currentTheme
    bodyThemes,     \* the theme-<name> classes on document.body, as the set of <name>
    preferredTheme, \* localStorage item 'preferred-theme' (NullItem when absent)
    templateBody,   \* the theme-<name> classes the page's HTML gives body
    tmLast,         \* the ThemeManager operation of the step just taken
    \* ---- UXEnhancer (ux-enhancer.js) ----
    uxMethodsDefined, \* whether the methods UXEnhancer calls but does not define exist
    uxPhase,        \* "loading": no UXEnhancer yet on this page; "constructed"; "failed"
    uxPreferences,  \* UXEnhancer.preferences
    uxStored,       \* localStorage item 'ux_preferences': <<>> or <<JSON text>>
    bodyDataTheme,  \* document.body.dataset.theme
    bodyUxClasses,  \* the classes reduce-motion / compact-mode on document.body
    rootFontSize,   \* document.documentElement.style.fontSize
    \* ---- IconManager (icon-manager.js) ----
    icInstances,    \* the IconManager objects created, in creation order
    windowIconManager, \* window.iconManager: index into icInstances, 0 if unset
    icInitTimers,   \* instances whose init() timeout (500 ms) is pending
    icChecks,       \* pending 100 ms timeouts of checkFontAwesome, oldest first
    icDclListeners, \* DOMContentLoaded listeners icon-manager.js registered
    icLoadListeners, \* load listeners icon-manager.js registered
    icRefreshTimers, \* pending 1000 ms refresh timeouts
    icLoadTimers,   \* pending 500 ms timeouts of the load listener
    icObservers,    \* MutationObservers created by observeNewIcons
    icTestElements, \* test <i> elements currently attached to body
    docReady,       \* "loading", "interactive" (DOMContentLoaded fired), "complete"
    bodyIconFallback, \* body carries class icon-fallback-active
    icLast,         \* the checkFontAwesome timeout that ran in the step just taken
    \* ---- ModernThemeSystem (modern-ui.js) ----
    mtExists,       \* window.modernTheme has been constructed on the current page
    mtCurrentTheme, \* ModernThemeSystem.currentTheme
    mtDataTheme,    \* body's data-theme attribute (NullItem when absent)
    modernThemeItem, \* localStorage item 'modernTheme' (NullItem when absent)
    mtLast,         \* the ModernThemeSystem operation of the step just taken
    mtLastSet,      \* the last theme passed to setTheme by a caller or by toggleTheme
    toggleBounce,   \* the .theme-toggle button carries class bounce-animate
    bounceTimers,   \* pending 600 ms timeouts of toggleTheme
    modernizeTimer, \* the 100 ms timeout of the DOMContentLoaded listener is pending
    modernized,     \* modernizeExistingContent() and addModernBackground() have run
    \* ---- the page clock ----
    pageNow,        \* Date.now() of the page, in milliseconds
    pageTicks,      \* number of clock advances so far (bounded by MaxPageTicks)
    \* ---- ProgressMonitor / EnhancedAjaxHandler (enhanced-ui.js) ----
    activeRequests, \* keys of progressMonitor.activeRequests
    hideTimers,     \* pending 3000 ms timeouts of completeProgress, oldest first
    ajSubmits,      \* the submits handled so far, with what each has done
    ajResult,       \* form -> number of the submit whose HTML its result container shows
    chatMessage,    \* value of the chat form's textarea
    qualityRequests, \* requestCodeQuality calls whose fetch is in flight
    qualityShown,   \* the quality-analysis container has been filled and shown
    \* ---- PerformanceOptimizer (performance-optimizer.js) ----
    lsItems,        \* localStorage: key -> JSON text of the cache item (NoItem if absent)
    lsWritten,      \* key -> the latest cacheInLocalStorage that stored an item
    lsLast,         \* the localStorage-cache operation of the step just taken
    memoryCache,    \* memoryCache: the entries <<key, data>> in insertion order
    memoryCacheSize, \* PerformanceOptimizer.memoryCacheSize
    mcCalls,        \* number of cacheInMemory calls so far (bounded by MaxCalls)
    images,         \* the lazy <img> elements: src, classes, observed, loads in flight
    imageCache      \* keys of PerformanceOptimizer.imageCache

swVars == <<swState, caches, now, ticks, headersGuard, last>>
tmVars == <<tmExists, currentTheme, bodyThemes, preferredTheme, templateBody, tmLast>>

uxVars == <<uxMethodsDefined, uxPhase, uxPreferences, uxStored, bodyDataTheme,
           bodyUxClasses, rootFontSize>>
icVars == <<icInstances, windowIconManager, icInitTimers, icChecks, icDclListeners,
           icLoadListeners, icRefreshTimers, icLoadTimers, icObservers,
           icTestElements, docReady, bodyIconFallback, icLast>>
mtVars == <<mtExists, mtCurrentTheme, mtDataTheme, modernThemeItem, mtLast, mtLastSet,
           toggleBounce, bounceTimers, modernizeTimer, modernized>>
clockVars == <<pageNow, pageTicks>>
ajVars == <<activeRequests, hideTimers, ajSubmits, ajResult, chatMessage,
           qualityRequests, qualityShown>>
lsVars == <<lsItems, lsWritten, lsLast>>
mcVars == <<memoryCache, memoryCacheSize, mcCalls>>
lzVars == <<images, imageCache>>
pgVars == <<mtVars, clockVars, ajVars, lsVars, mcVars, lzVars>>

vars == <<swVars, tmVars, uxVars, icVars, pgVars>>

(***************************************************************************)
(* Bounds                                                                  *)
(***************************************************************************)
MaxTicks == 2
MaxPageTicks == 2
MaxSubmits == 2
MaxBounceTimers == 2
MaxCalls == 4

(***************************************************************************)
(* String helpers (String.prototype.includes / startsWith, /...$/ tests)   *)
(***************************************************************************)
StartsWith(s, p) ==
    /\ Len(p) <= Len(s)
    /\ SubSeq(s, 1, Len(p)) = p

EndsWith(s, p) ==
    /\ Len(p) <= Len(s)
    /\ SubSeq(s, Len(s) - Len(p) + 1, Len(s)) = p

Includes(s, p) ==
    \E i \in 1..(Len(s) - Len(p) + 1) : SubSeq(s, i, i + Len(p) - 1) = p

Digits == <<"0","1","2","3","4","5","6","7","8","9">>

\* Number.prototype.toString() of a non-negative integer
RECURSIVE toString(_)
toString(n) ==
    IF n < 10 THEN <<Digits[n + 1]>>
    ELSE toString(n \div 10) \o <<Digits[(n % 10) + 1]>>

DigitVal(c) == CHOOSE d \in 0..9 : Digits[d + 1] = c

\* parseInt() of a non-empty string of decimal digits
RECURSIVE parseInt(_)
parseInt(s) ==
    IF Len(s) = 1 THEN DigitVal(s[1])
    ELSE 10 * parseInt(SubSeq(s, 1, Len(s) - 1)) + DigitVal(s[Len(s)])

(***************************************************************************)
(* Service worker constants                                                *)
(***************************************************************************)
STATIC_CACHE == "rhelper-static-v1.0.0"
DYNAMIC_CACHE == "rhelper-dynamic-v1.0.0"
IMAGE_CACHE == "rhelper-images-v1.0.0"

CacheNames == {STATIC_CACHE, DYNAMIC_CACHE, IMAGE_CACHE}

STATIC_ASSETS == {
    <<"/">>,
    <<"/","s","t","a","t","i","c","/","c","s","s","/","a","d","v","a","n","c","e","d","-","c","o","d","e","-","e","d","i","t","o","r",".","c","s","s">>,
    <<"/","s","t","a","t","i","c","/","j","s","/","a","d","v","a","n","c","e","d","-","c","o","d","e","-","e","d","i","t","o","r",".","j","s">>,
    <<"/","s","t","a","t","i","c","/","j","s","/","i","n","t","e","r","a","c","t","i","o","n","-","e","n","h","a","n","c","e","r",".","j","s">>,
    <<"/","s","t","a","t","i","c","/","j","s","/","p","e","r","f","o","r","m","a","n","c","e","-","o","p","t","i","m","i","z","e","r",".","j","s">>,
    <<"/","s","t","a","t","i","c","/","c","s","s","/","b","o","o","t","s","t","r","a","p",".","m","i","n",".","c","s","s">>,
    <<"/","s","t","a","t","i","c","/","j","s","/","b","o","o","t","s","t","r","a","p",".","b","u","n","d","l","e",".","m","i","n",".","j","s">>,
    <<"h","t","t","p","s",":","/","/","c","d","n","j","s",".","c","l","o","u","d","f","l","a","r","e",".","c","o","m","/","a","j","a","x","/","l","i","b","s","/","f","o","n","t","-","a","w","e","s","o","m","e","/","6",".","0",".","0","/","c","s","s","/","a","l","l",".","m","i","n",".","c","s","s">>,
    <<"h","t","t","p","s",":","/","/","c","d","n",".","j","s","d","e","l","i","v","r",".","n","e","t","/","n","p","m","/","m","o","n","a","c","o","-","e","d","i","t","o","r","@","l","a","t","e","s","t","/","m","i","n","/","v","s","/","l","o","a","d","e","r",".","j","s">> }

\* DYNAMIC_CACHE_PATTERNS: /^\/api\//, /^\/static\//, /\.json$/, /\.js$/, /\.css$/
DynamicPatternMatches(url) ==
    \/ StartsWith(url, <<"/","a","p","i","/">>)
    \/ StartsWith(url, <<"/","s","t","a","t","i","c","/">>)
    \/ EndsWith(url, <<".","j","s","o","n">>)
    \/ EndsWith(url, <<".","j","s">>)
    \/ EndsWith(url, <<".","c","s","s">>)

\* IMAGE_CACHE_PATTERNS: /\.jpg$/, /\.jpeg$/, /\.png$/, /\.gif$/, /\.webp$/, /\.svg$/
ImagePatternMatches(url) ==
    \/ EndsWith(url, <<".","j","p","g">>)
    \/ EndsWith(url, <<".","j","p","e","g">>)
    \/ EndsWith(url, <<".","p","n","g">>)
    \/ EndsWith(url, <<".","g","i","f">>)
    \/ EndsWith(url, <<".","w","e","b","p">>)
    \/ EndsWith(url, <<".","s","v","g">>)

\* CACHE_EXPIRY, in seconds
CACHE_EXPIRY_static == 7 * 24 * 60 * 60
CACHE_EXPIRY_dynamic == 3 * 24 * 60 * 60
CACHE_EXPIRY_images == 30 * 24 * 60 * 60
CACHE_EXPIRY_api == 5 * 60

(***************************************************************************)
(* Requests the model draws its inputs from.  The origin of the service    *)
(* worker is https://h, so STATIC_ASSETS entry '/' is the URL https://h/.  *)
(***************************************************************************)
UrlRoot == <<"h","t","t","p","s",":","/","/","h","/">>
UrlApi == <<"h","t","t","p","s",":","/","/","h","/","a","p","i","/","u">>
UrlImage == <<"h","t","t","p","s",":","/","/","h","/","a",".","p","n","g">>
UrlJson == <<"h","t","t","p","s",":","/","/","h","/","d",".","j","s","o","n">>
UrlData == <<"d","a","t","a",":","x">>

\* URLs that can be cache keys, numbered; the caches are keyed by the number
UrlText == <<UrlRoot, UrlApi, UrlImage, UrlJson, UrlData>>
UrlIds == 1..Len(UrlText)

Requests == {
    [url |-> 1, method |-> "GET", destination |-> "document"],
    [url |-> 2, method |-> "GET", destination |-> ""],
    [url |-> 2, method |-> "POST", destination |-> ""],
    [url |-> 3, method |-> "GET", destination |-> "image"],
    [url |-> 4, method |-> "GET", destination |-> ""],
    [url |-> 5, method |-> "GET", destination |-> ""] }

NoRequest == [url |-> 0, method |-> "", destination |-> ""]

\* The URLs of STATIC_ASSETS, resolved against the origin, that are in UrlIds
PrecachedUrlIds == {u \in UrlIds : \E a \in STATIC_ASSETS : UrlText[u] = SubSeq(UrlRoot, 1, Len(UrlRoot) - 1) \o a}

(***************************************************************************)
(* Cached responses.  ts is the X-Cache-Timestamp header (<<>> when the    *)
(* header is absent); at is the time the response was stored (at = -1: no  *)
(* response stored under the key).                                         *)
(***************************************************************************)
NoTs == <<>>
NoEntry == [ts |-> NoTs, at |-> -1]
Present(e) == e.at >= 0

EmptyCache == [u \in UrlIds |-> NoEntry]

(***************************************************************************)
(* Request classification (modern-ui.js 853-873)                           *)
(***************************************************************************)
isStaticAsset(request) ==
    \/ \E asset \in STATIC_ASSETS : Includes(UrlText[request.url], asset)
    \/ Includes(UrlText[request.url], <<"/","s","t","a","t","i","c","/">>)
    \/ Includes(UrlText[request.url], <<".","c","s","s">>)
    \/ Includes(UrlText[request.url], <<".","j","s">>)

isImageRequest(request) ==
    \/ ImagePatternMatches(UrlText[request.url])
    \/ request.destination = "image"

isDynamicRequest(request) == DynamicPatternMatches(UrlText[request.url])

isApiRequest(request) ==
    \/ Includes(UrlText[request.url], <<"/","a","p","i","/">>)
    \/ Includes(UrlText[request.url], <<".","j","s","o","n">>)

\* Route without the 'request.method !== GET' early return
Route_NoMethodCheck(request) ==
    IF ~StartsWith(UrlText[request.url], <<"h","t","t","p">>) THEN "none"
    ELSE IF isStaticAsset(request) THEN "static"
    ELSE IF isImageRequest(request) THEN "image"
    ELSE IF isDynamicRequest(request) THEN "dynamic"
    ELSE IF isApiRequest(request) THEN "api"
    ELSE "default"

\* The fetch listener: which handler answers the request ("none": the
\* listener returns without calling respondWith)
Route(request) ==
    IF ~StartsWith(UrlText[request.url], <<"h","t","t","p">>) THEN "none"
    ELSE IF request.method # "GET" THEN "none"
    ELSE IF isStaticAsset(request) THEN "static"
    ELSE IF isImageRequest(request) THEN "image"
    ELSE IF isDynamicRequest(request) THEN "dynamic"
    ELSE IF isApiRequest(request) THEN "api"
    ELSE "default"

(***************************************************************************)
(* Timestamps (modern-ui.js 875-888)                                       *)
(***************************************************************************)
\* isCacheExpired with the comparison inverted
isCacheExpired_Inverted(response, maxAge) ==
    IF response.ts = NoTs THEN TRUE
    ELSE (now - parseInt(response.ts)) < maxAge

isCacheExpired(response, maxAge) ==
    IF response.ts = NoTs THEN TRUE
    ELSE (now - parseInt(response.ts)) > maxAge

\* addTimestamp calls response.headers.set.  The headers of a Response that
\* came from fetch() or from cache.match() carry the guard "immutable" in a
\* browser, where set() throws a TypeError; with a Response implementation
\* that has no guard ("none") the header is set.
HeadersSetThrows == headersGuard = "immutable"

addTimestamp == [ts |-> toString(now), at |-> now]

\* A response stored without X-Cache-Timestamp (cache.addAll, updateCaches)
Unstamped == [ts |-> NoTs, at |-> now]

(***************************************************************************)
(* Cache strategies.  net is the outcome of fetch(request): "ok" (a        *)
(* response with response.ok), "notok" (a response with another status),   *)
(* "fail" (fetch rejects).  Each operator gives the handler's answer:      *)
(*   out   "cached" | "network" | "offline" | "placeholder" | "api503" |   *)
(*         "rejected"                                                      *)
(*   net   the outcome of the fetch the handler made, "none" if it made    *)
(*         none                                                            *)
(*   hit   what cache.match(request) found (NoEntry if nothing or if the   *)
(*         cache was not read)                                             *)
(*   status the status of the response (0 when the handler rejects)        *)
(*   reads whether a cache was read                                        *)
(*   put   whether the response was stored with a fresh timestamp          *)
(***************************************************************************)
\* Status of the response: a cached response was stored from an ok response
\* (200), createOfflinePage and createPlaceholderImage answer 200, the
\* offline API response 503; a network response that is not ok stands as 404
StatusOf(out, net) ==
    CASE out = "rejected" -> 0
      [] out = "api503" -> 503
      [] out = "network" /\ net = "notok" -> 404
      [] OTHER -> 200

Answer(out, net, hit, reads, put) ==
    [out |-> out, net |-> net, hit |-> hit, reads |-> reads, put |-> put,
     status |-> StatusOf(out, net)]

handleStaticAsset(request, net) ==
    LET cached == caches[STATIC_CACHE][request.url]
        thrown == net = "fail" \/ (net = "ok" /\ HeadersSetThrows)
    IN  IF Present(cached) /\ ~isCacheExpired(cached, CACHE_EXPIRY_static)
        THEN Answer("cached", "none", cached, TRUE, FALSE)
        ELSE IF ~thrown
        THEN Answer("network", net, cached, TRUE, net = "ok")
        ELSE IF Present(cached)
        THEN Answer("cached", net, cached, TRUE, FALSE)
        ELSE IF request.destination = "document"
        THEN Answer("offline", net, cached, TRUE, FALSE)
        ELSE Answer("rejected", net, cached, TRUE, FALSE)

handleImageRequest(request, net) ==
    LET cached == caches[IMAGE_CACHE][request.url]
        thrown == net = "fail" \/ (net = "ok" /\ HeadersSetThrows)
    IN  IF Present(cached) /\ ~isCacheExpired(cached, CACHE_EXPIRY_images)
        THEN Answer("cached", "none", cached, TRUE, FALSE)
        ELSE IF ~thrown
        THEN Answer("network", net, cached, TRUE, net = "ok")
        ELSE IF Present(cached)
        THEN Answer("cached", net, cached, TRUE, FALSE)
        ELSE Answer("placeholder", net, cached, TRUE, FALSE)

handleDynamicRequest(request, net) ==
    LET cached == caches[DYNAMIC_CACHE][request.url]
        thrown == net = "fail" \/ (net = "ok" /\ HeadersSetThrows)
    IN  IF ~thrown
        THEN Answer("network", net, NoEntry, FALSE, net = "ok")
        ELSE IF Present(cached) /\ ~isCacheExpired(cached, CACHE_EXPIRY_dynamic)
        THEN Answer("cached", net, cached, TRUE, FALSE)
        ELSE Answer("rejected", net, cached, TRUE, FALSE)

\* handleApiRequest falling back to the cache without the expiry check
handleApiRequest_NoExpiry(request, net) ==
    LET cached == caches[DYNAMIC_CACHE][request.url]
        thrown == net = "fail" \/ (net = "ok" /\ HeadersSetThrows)
    IN  IF ~thrown
        THEN Answer("network", net, NoEntry, FALSE, net = "ok")
        ELSE IF Present(cached)
        THEN IF HeadersSetThrows
             THEN Answer("rejected", net, cached, TRUE, FALSE)
             ELSE Answer("cached", net, cached, TRUE, FALSE)
        ELSE Answer("api503", net, cached, TRUE, FALSE)

handleApiRequest(request, net) ==
    LET cached == caches[DYNAMIC_CACHE][request.url]
        thrown == net = "fail" \/ (net = "ok" /\ HeadersSetThrows)
    IN  IF ~thrown
        THEN Answer("network", net, NoEntry, FALSE, net = "ok")
        ELSE IF Present(cached) /\ ~isCacheExpired(cached, CACHE_EXPIRY_api)
        THEN \* offlineResponse.headers.set('X-Served-From-Cache', 'true')
             IF HeadersSetThrows
             THEN Answer("rejected", net, cached, TRUE, FALSE)
             ELSE Answer("cached", net, cached, TRUE, FALSE)
        ELSE Answer("api503", net, cached, TRUE, FALSE)

handleDefaultRequest(request, net) ==
    IF net # "fail"
    THEN Answer("network", net, NoEntry, FALSE, FALSE)
    ELSE IF request.destination = "document"
    THEN Answer("offline", net, NoEntry, FALSE, FALSE)
    ELSE Answer("rejected", net, NoEntry, FALSE, FALSE)

\* The cache a handler stores into
CacheOf(handler) ==
    CASE handler = "static" -> STATIC_CACHE
      [] handler = "image" -> IMAGE_CACHE
      [] OTHER -> DYNAMIC_CACHE

HandlerAnswer(handler, request, net) ==
    CASE handler = "static" -> handleStaticAsset(request, net)
      [] handler = "image" -> handleImageRequest(request, net)
      [] handler = "dynamic" -> handleDynamicRequest(request, net)
      [] handler = "api" -> handleApiRequest(request, net)
      [] OTHER -> handleDefaultRequest(request, net)

NetOutcomes == {"ok", "notok", "fail"}

NoLast ==
    [req |-> NoRequest, handler |-> "none", responded |-> FALSE, out |-> "none",
     net |-> "none", hit |-> NoEntry, reads |-> FALSE, status |-> 0]

\* The effect of running a handler on a request: the answer is recorded in
\* last and, on an ok network response, the stamped clone is put in the cache
RunHandler(handler, request, net) ==
    LET a == HandlerAnswer(handler, request, net)
    IN  /\ last' = [req |-> request, handler |-> handler, responded |-> TRUE,
                    out |-> a.out, net |-> a.net, hit |-> a.hit, reads |-> a.reads,
                    status |-> a.status]
        /\ caches' = IF a.put
                     THEN [caches EXCEPT ![CacheOf(handler)][request.url] = addTimestamp]
                     ELSE caches

(***************************************************************************)
(* Service worker events                                                   *)
(***************************************************************************)
SWInit(guards) ==
    /\ swState = "parsed"
    /\ caches = [c \in CacheNames |-> EmptyCache]
    /\ now = 0
    /\ ticks = 0
    /\ headersGuard \in guards
    /\ last = NoLast

\* install: cache.addAll(STATIC_ASSETS) stores every asset or, if one fetch
\* fails, nothing (the install then fails)
Install(allOk) ==
    /\ swState = "parsed"
    /\ IF allOk
       THEN /\ caches' = [caches EXCEPT ![STATIC_CACHE] =
                            [u \in UrlIds |-> IF u \in PrecachedUrlIds THEN Unstamped ELSE @[u]]]
            /\ swState' = "installed"
       ELSE /\ caches' = caches
            /\ swState' = "redundant"
    /\ last' = NoLast
    /\ UNCHANGED <<now, ticks, headersGuard, tmVars, uxVars, icVars, pgVars>>

\* activate: cleanOldCaches deletes only caches that are not one of the three
Activate ==
    /\ swState = "installed"
    /\ swState' = "activated"
    /\ last' = NoLast
    /\ UNCHANGED <<caches, now, ticks, headersGuard, tmVars, uxVars, icVars, pgVars>>

\* fetch event of the active worker
FetchEvent(request, net) ==
    /\ swState = "activated"
    /\ LET handler == Route(request)
       IN  IF handler = "none"
           THEN /\ last' = [NoLast EXCEPT !.req = request]
                /\ caches' = caches
           ELSE RunHandler(handler, request, net)
    /\ UNCHANGED <<swState, now, ticks, headersGuard, tmVars, uxVars, icVars, pgVars>>

\* message CLEAR_CACHE: clearCache(payload.cacheName); "" is no cacheName
ClearCache(cacheName) ==
    /\ swState = "activated"
    /\ caches' = [c \in CacheNames |->
                    IF cacheName = "" \/ cacheName = c THEN EmptyCache ELSE caches[c]]
    /\ last' = NoLast
    /\ UNCHANGED <<swState, now, ticks, headersGuard, tmVars, uxVars, icVars, pgVars>>

\* message PREFETCH_URLS with payload.urls = [url]; netOk: fetch gave an ok response
prefetchUrls(url, netOk) ==
    /\ swState = "activated"
    /\ caches' = IF netOk /\ ~HeadersSetThrows
                 THEN [caches EXCEPT ![DYNAMIC_CACHE][url] = addTimestamp]
                 ELSE caches
    /\ last' = NoLast
    /\ UNCHANGED <<swState, now, ticks, headersGuard, tmVars, uxVars, icVars, pgVars>>

\* sync event (background-sync or cache-update): updateCaches re-fetches
\* STATIC_ASSETS; okUrls are the assets whose fetch gave an ok response
updateCaches(okUrls) ==
    /\ swState = "activated"
    /\ caches' = [caches EXCEPT ![STATIC_CACHE] =
                    [u \in UrlIds |-> IF u \in okUrls THEN Unstamped ELSE @[u]]]
    /\ last' = NoLast
    /\ UNCHANGED <<swState, now, ticks, headersGuard, tmVars, uxVars, icVars, pgVars>>

\* Passage of time
Tick(d) ==
    /\ ticks < MaxTicks
    /\ ticks' = ticks + 1
    /\ now' = now + d
    /\ last' = NoLast
    /\ UNCHANGED <<swState, caches, headersGuard, tmVars, uxVars, icVars, pgVars>>

PrefetchInputs == {2}

SWEnvironment ==
    \/ \E allOk \in BOOLEAN : Install(allOk)
    \/ Activate
    \/ \E c \in CacheNames \cup {""} : ClearCache(c)
    \/ \E u \in PrefetchInputs, netOk \in BOOLEAN : prefetchUrls(u, netOk)
    \/ \E okUrls \in SUBSET PrecachedUrlIds : updateCaches(okUrls)

(***************************************************************************)
(* ThemeManager (theme-manager.js)                                         *)
(***************************************************************************)
\* Object.keys(this.themes)
ThemeKeys == {"classic", "sakura", "rose", "coral", "lavender_original", "warm",
              "dark", "forest", "ocean", "sunset", "lavender", "rose-gold"}

\* Property names every object literal inherits from Object.prototype
\* (those the model uses as theme names)
ObjectPrototypeProps == {"constructor", "toString"}

\* localStorage.getItem of a key that was never set
NullItem == "<null>"

\* Theme names the model passes to setTheme and finds in localStorage: the
\* keys of themes, a name that is no property at all, two inherited
\* property names and the empty string
ThemeNames == ThemeKeys \cup ObjectPrototypeProps \cup {"neon", ""}

\* Truthiness of this.themes[name]: an own property gives the theme record,
\* an inherited one gives a function of Object.prototype, anything else
\* undefined
ThemesLookup(name) ==
    IF name \in ThemeKeys THEN "theme"
    ELSE IF name \in ObjectPrototypeProps THEN "inherited"
    ELSE "undefined"

ThemeKnown(name) == ThemesLookup(name) # "undefined"

\* applyTheme: classList.remove(...all theme-<key>), classList.add(theme-<name>)
applyTheme(classes, themeName) == (classes \ ThemeKeys) \cup {themeName}

TMInit(storedValues, templates) ==
    /\ tmExists = FALSE
    /\ currentTheme = "classic"
    /\ bodyThemes \in templates
    /\ templateBody = bodyThemes
    /\ preferredTheme \in storedValues
    /\ tmLast = [op |-> "none", arg |-> ""]

\* A page load: a fresh document, then DOMContentLoaded runs
\* 'new ThemeManager()' (constructor, init, loadSavedTheme)
NewThemeManager ==
    LET saved == preferredTheme
        use == saved # NullItem /\ saved # "" /\ ThemeKnown(saved)
    IN  /\ tmExists' = TRUE
        /\ currentTheme' = IF use THEN saved ELSE "classic"
        /\ bodyThemes' = IF use THEN applyTheme(templateBody, saved) ELSE templateBody
        /\ tmLast' = [op |-> "construct", arg |-> ""]
        /\ UNCHANGED <<preferredTheme, templateBody, swVars, uxVars, icVars, pgVars>>

setTheme(themeName) ==
    /\ tmExists
    /\ tmLast' = [op |-> "setTheme", arg |-> themeName]
    /\ IF ~ThemeKnown(themeName)
       THEN UNCHANGED <<currentTheme, bodyThemes, preferredTheme>>
       ELSE /\ currentTheme' = themeName
            /\ bodyThemes' = applyTheme(bodyThemes, themeName)
            /\ preferredTheme' = themeName
    /\ UNCHANGED <<tmExists, templateBody, swVars, uxVars, icVars, pgVars>>

(***************************************************************************)
(* UXEnhancer (ux-enhancer.js)                                             *)
(***************************************************************************)
PreferenceKeys == {"theme", "fontSize", "reduceMotion", "compactMode"}

\* A property that is not set reads as undefined
Undefined == "undefined"

NoPreferences == [k \in PreferenceKeys |-> Undefined]

\* Values the model passes to updatePreference and finds in localStorage
PreferenceValues(key) ==
    CASE key = "theme" -> {"light", "dark", "sakura"}
      [] key = "fontSize" -> {"16"}
      [] OTHER -> {"true", "false"}

\* Truthiness of a preference value
Truthy(value) == value \notin {Undefined, "false", ""}

\* JSON.stringify(preferences): the properties that are set, as key/value pairs
JSONstringify(preferences) ==
    {<<k, preferences[k]>> : k \in {key \in PreferenceKeys : preferences[key] # Undefined}}

\* { ...preferences, ...JSON.parse(text) }
MergeParsed(preferences, text) ==
    [k \in PreferenceKeys |->
        IF \E pair \in text : pair[1] = k
        THEN (CHOOSE pair \in text : pair[1] = k)[2]
        ELSE preferences[k]]

\* this.loadPreferences(): called by the constructor, defined nowhere in the
\* class; where it exists it is taken to return the empty preferences
loadPreferences == NoPreferences

UXInit(defined) ==
    /\ uxMethodsDefined \in defined
    /\ uxPhase = "loading"
    /\ uxPreferences = NoPreferences
    /\ uxStored = <<>>
    /\ bodyDataTheme = Undefined
    /\ bodyUxClasses = {}
    /\ rootFontSize = ""

\* applyPreferences, as the values it gives the page for preferences p
AppliedDataTheme(p, old) == IF Truthy(p["theme"]) THEN p["theme"] ELSE old
AppliedFontSize(p, old) == IF Truthy(p["fontSize"]) THEN p["fontSize"] ELSE old
AppliedClasses(p, old) ==
    old \cup (IF Truthy(p["reduceMotion"]) THEN {"reduce-motion"} ELSE {})
        \cup (IF Truthy(p["compactMode"]) THEN {"compact-mode"} ELSE {})

applyPreferences(p) ==
    /\ bodyDataTheme' = AppliedDataTheme(p, bodyDataTheme)
    /\ rootFontSize' = AppliedFontSize(p, rootFontSize)
    /\ bodyUxClasses' = AppliedClasses(p, bodyUxClasses)

\* A page load gives a fresh document
UXPageLoad ==
    /\ uxPhase' = "loading"
    /\ uxPreferences' = NoPreferences
    /\ bodyDataTheme' = Undefined
    /\ bodyUxClasses' = {}
    /\ rootFontSize' = ""
    /\ UNCHANGED <<uxMethodsDefined, uxStored, swVars, tmVars, icVars, pgVars>>

\* DOMContentLoaded: window.uxEnhancer = new UXEnhancer().  The constructor
\* calls this.loadPreferences() first: a TypeError where the method does not
\* exist.  Otherwise init() registers the shortcuts and the keydown listener
\* and setupPersonalization loads and applies the stored preferences.
NewUXEnhancer ==
    /\ uxPhase = "loading"
    /\ IF ~uxMethodsDefined
       THEN /\ uxPhase' = "failed"
            /\ UNCHANGED <<uxPreferences, bodyDataTheme, bodyUxClasses, rootFontSize>>
       ELSE LET p == IF uxStored = <<>> THEN loadPreferences
                     ELSE MergeParsed(loadPreferences, uxStored[1])
            IN  /\ uxPhase' = "constructed"
                /\ uxPreferences' = p
                /\ applyPreferences(p)
    /\ UNCHANGED <<uxMethodsDefined, uxStored, swVars, tmVars, icVars, pgVars>>

\* updatePreference(key, value): set, savePreferences, applyPreferences
updatePreference(key, value) ==
    /\ uxPhase = "constructed"
    /\ LET p == [uxPreferences EXCEPT ![key] = value]
       IN  /\ uxPreferences' = p
           /\ uxStored' = <<JSONstringify(p)>>
           /\ applyPreferences(p)
    /\ UNCHANGED <<uxMethodsDefined, uxPhase, swVars, tmVars, icVars, pgVars>>

toggleDarkMode ==
    updatePreference("theme", IF uxPreferences["theme"] = "dark" THEN "light" ELSE "dark")

\* The shortcuts registered by setupKeyboardShortcuts; only toggleDarkMode
\* and closeAllModals do more than console.log, and only the first changes
\* state the model holds
ShortcutCombos == {"Ctrl+/", "Ctrl+K", "Ctrl+Shift+P", "F1", "Escape", "Ctrl+,",
                   "Ctrl+Shift+I", "Alt+F", "Ctrl+B", "Ctrl+Shift+D"}

\* keydown with the key combination combo
KeyDown(combo) ==
    /\ uxPhase = "constructed"
    /\ IF combo = "Ctrl+Shift+D"
       THEN toggleDarkMode
       ELSE UNCHANGED vars

(***************************************************************************)
(* IconManager (icon-manager.js)                                           *)
(***************************************************************************)
\* What getComputedStyle(testElement, ':before').content can be: a glyph of
\* the icon font, or one of the values that mean no icon
FaContents == {"glyph", "", "none", "empty-quotes", "normal"}

\* No checkFontAwesome timeout ran in the step
NoCheck == [inst |-> 0, content |-> "-"]

ICInit ==
    /\ icInstances = <<>>
    /\ windowIconManager = 0
    /\ icInitTimers = {}
    /\ icChecks = <<>>
    /\ icDclListeners = 0
    /\ icLoadListeners = 0
    /\ icRefreshTimers = 0
    /\ icLoadTimers = 0
    /\ icObservers = 0
    /\ icTestElements = 0
    /\ docReady = "loading"
    /\ bodyIconFallback = FALSE
    /\ icLast = NoCheck

\* new IconManager(): the constructor sets isEmojiModeActive = false and
\* init() schedules the delayed check
NewIconManager(instances) == Append(instances, [isEmojiModeActive |-> FALSE])

\* Evaluation of icon-manager.js after the class: the module-level
\* statements of lines 266-298, in order
\*   window.iconManager = new IconManager()
\*   document.addEventListener('DOMContentLoaded', ...)
\*   window.addEventListener('load', ...)
\*   window.iconManager = new IconManager()
\*   document.addEventListener('DOMContentLoaded', ...)
ModuleLevelInstances == NewIconManager(NewIconManager(<<>>))
ModuleLevelDclListeners == 2
ModuleLevelLoadListeners == 1

EvaluateIconManagerScript ==
    /\ icInstances = <<>>
    /\ icLast' = NoCheck
    /\ icInstances' = ModuleLevelInstances
    /\ windowIconManager' = Len(ModuleLevelInstances)
    /\ icInitTimers' = 1..Len(ModuleLevelInstances)
    /\ icDclListeners' = ModuleLevelDclListeners
    /\ icLoadListeners' = ModuleLevelLoadListeners
    /\ UNCHANGED <<icChecks, icRefreshTimers, icLoadTimers, icObservers, icTestElements,
                   docReady, bodyIconFallback, swVars, tmVars, uxVars, pgVars>>

\* checkFontAwesome, synchronous part: the test element is appended and the
\* 100 ms timeout is set; fontAwesomeLoaded is what the link elements showed
StartCheck(i, fontAwesomeLoaded) ==
    /\ icTestElements' = icTestElements + 1
    /\ icChecks' = Append(icChecks, [inst |-> i, fontAwesomeLoaded |-> fontAwesomeLoaded])

\* The init() timeout of instance i: checkFontAwesome(), then
\* this.setupFallbacks(), which the class does not define: the TypeError ends
\* the callback before observeNewIcons()
InitTimeout(i, fontAwesomeLoaded) ==
    /\ i \in icInitTimers
    /\ icInitTimers' = icInitTimers \ {i}
    /\ icLast' = NoCheck
    /\ StartCheck(i, fontAwesomeLoaded)
    /\ UNCHANGED <<icInstances, windowIconManager, icDclListeners, icLoadListeners,
                   icRefreshTimers, icLoadTimers, icObservers, docReady,
                   bodyIconFallback, swVars, tmVars, uxVars, pgVars>>

\* enableEmojiIcons of instance i
enableEmojiIcons(i) ==
    /\ icInstances' = [icInstances EXCEPT ![i].isEmojiModeActive = TRUE]
    /\ bodyIconFallback' = TRUE

\* The 100 ms timeout of checkFontAwesome: content is the computed ::before
\* content of the test element
CheckTimeout(content) ==
    /\ icChecks # <<>>
    /\ LET check == Head(icChecks)
           hasFontAwesome == content \notin {"", "none", "empty-quotes", "normal"}
       IN  IF ~hasFontAwesome \/ ~check.fontAwesomeLoaded
           THEN /\ enableEmojiIcons(check.inst)
                /\ icTestElements' = icTestElements - 1
           ELSE \* this.setupFallbacks() throws: removeChild is not reached
                UNCHANGED <<icInstances, bodyIconFallback, icTestElements>>
    /\ icChecks' = Tail(icChecks)
    /\ icLast' = [inst |-> Head(icChecks).inst, content |-> content]
    /\ UNCHANGED <<windowIconManager, icInitTimers, icDclListeners, icLoadListeners,
                   icRefreshTimers, icLoadTimers, icObservers, docReady,
                   swVars, tmVars, uxVars, pgVars>>

\* DOMContentLoaded: every registered listener sets its 1000 ms timeout
DOMContentLoaded ==
    /\ docReady = "loading"
    /\ icLast' = NoCheck
    /\ docReady' = "interactive"
    /\ icRefreshTimers' = icRefreshTimers + icDclListeners
    /\ UNCHANGED <<icInstances, windowIconManager, icInitTimers, icChecks, icDclListeners,
                   icLoadListeners, icLoadTimers, icObservers, icTestElements,
                   bodyIconFallback, swVars, tmVars, uxVars, pgVars>>

\* load: every registered listener sets its 500 ms timeout
WindowLoad ==
    /\ docReady = "interactive"
    /\ icLast' = NoCheck
    /\ docReady' = "complete"
    /\ icLoadTimers' = icLoadTimers + icLoadListeners
    /\ UNCHANGED <<icInstances, windowIconManager, icInitTimers, icChecks, icDclListeners,
                   icLoadListeners, icRefreshTimers, icObservers, icTestElements,
                   bodyIconFallback, swVars, tmVars, uxVars, pgVars>>

\* The refresh timeout: window.iconManager.refreshIcons() (updateAllIcons
\* touches the icon elements only)
RefreshTimeout ==
    /\ icRefreshTimers > 0
    /\ icLast' = NoCheck
    /\ icRefreshTimers' = icRefreshTimers - 1
    /\ UNCHANGED <<icInstances, windowIconManager, icInitTimers, icChecks, icDclListeners,
                   icLoadListeners, icLoadTimers, icObservers, icTestElements, docReady,
                   bodyIconFallback, swVars, tmVars, uxVars, pgVars>>

\* The timeout of the load listener: window.iconManager.checkFontAwesome()
LoadTimeout(fontAwesomeLoaded) ==
    /\ icLoadTimers > 0
    /\ icLast' = NoCheck
    /\ icLoadTimers' = icLoadTimers - 1
    /\ StartCheck(windowIconManager, fontAwesomeLoaded)
    /\ UNCHANGED <<icInstances, windowIconManager, icInitTimers, icDclListeners,
                   icLoadListeners, icRefreshTimers, icObservers, docReady,
                   bodyIconFallback, swVars, tmVars, uxVars, pgVars>>

\* window.iconManager.toggleIconMode() (the toggle-icons button)
toggleIconMode ==
    /\ windowIconManager # 0
    /\ icLast' = NoCheck
    /\ IF icInstances[windowIconManager].isEmojiModeActive
       THEN /\ bodyIconFallback' = FALSE
            /\ icInstances' = [icInstances EXCEPT ![windowIconManager].isEmojiModeActive = FALSE]
       ELSE enableEmojiIcons(windowIconManager)
    /\ UNCHANGED <<windowIconManager, icInitTimers, icChecks, icDclListeners, icLoadListeners,
                   icRefreshTimers, icLoadTimers, icObservers, icTestElements, docReady,
                   swVars, tmVars, uxVars, pgVars>>

(***************************************************************************)
(* ModernThemeSystem (modern-ui.js)                                        *)
(***************************************************************************)
\* The theme strings passed around: the two themes of the system and one
\* other non-empty string
ModernThemes == {"light", "dark", "blue"}

\* No ModernThemeSystem operation in the step
NoModernOp == [op |-> "none", from |-> NullItem]

\* localStorage.getItem('modernTheme') || 'dark': null and '' are falsy
SavedTheme(item) == IF item = NullItem \/ item = "" THEN "dark" ELSE item

MTInit(storedValues) ==
    /\ mtExists = FALSE
    /\ mtCurrentTheme = NullItem
    /\ mtDataTheme = NullItem
    /\ modernThemeItem \in storedValues
    /\ mtLast = NoModernOp
    /\ mtLastSet = NullItem
    /\ toggleBounce = FALSE
    /\ bounceTimers = 0
    /\ modernizeTimer = FALSE
    /\ modernized = FALSE

ModernThemeSystem_setTheme_NoStore(theme) ==
    /\ mtCurrentTheme' = theme
    /\ mtDataTheme' = theme
    /\ modernThemeItem' = modernThemeItem

\* setTheme(theme): currentTheme, body's data-theme and the stored item
\* (updateThemeIcon only styles the toggle's icons)
ModernThemeSystem_setTheme(theme) ==
    /\ mtCurrentTheme' = theme
    /\ mtDataTheme' = theme
    /\ modernThemeItem' = theme

\* The DOMContentLoaded listener: window.modernTheme = new ModernThemeSystem();
\* the constructor sets currentTheme = 'dark' and init() runs
\* loadSavedTheme(); then the 100 ms timeout is set
NewModernThemeSystem ==
    /\ ~mtExists
    /\ mtExists' = TRUE
    /\ modernizeTimer' = TRUE
    /\ UNCHANGED modernized
    /\ ModernThemeSystem_setTheme(SavedTheme(modernThemeItem))
    /\ mtLast' = [op |-> "construct", from |-> NullItem]
    /\ UNCHANGED <<mtLastSet, toggleBounce, bounceTimers, clockVars, ajVars, lsVars, mcVars, lzVars,
                   swVars, tmVars, uxVars, icVars>>

\* window.modernTheme.setTheme(theme)
CallSetTheme(theme) ==
    /\ mtExists
    /\ ModernThemeSystem_setTheme(theme)
    /\ mtLast' = [op |-> "setTheme", from |-> mtCurrentTheme]
    /\ mtLastSet' = theme
    /\ UNCHANGED <<mtExists, toggleBounce, bounceTimers, modernizeTimer, modernized, clockVars, ajVars, lsVars, mcVars, lzVars,
                   swVars, tmVars, uxVars, icVars>>

\* toggleTheme(): a click on .theme-toggle or a direct call; the button
\* (the page has one) bounces for 600 ms
toggleTheme ==
    /\ mtExists
    /\ bounceTimers < MaxBounceTimers
    /\ toggleBounce' = TRUE
    /\ bounceTimers' = bounceTimers + 1
    /\ LET newTheme == IF mtCurrentTheme = "light" THEN "dark" ELSE "light"
       IN  /\ ModernThemeSystem_setTheme(newTheme)
           /\ mtLastSet' = newTheme
    /\ mtLast' = [op |-> "toggleTheme", from |-> mtCurrentTheme]
    /\ UNCHANGED <<mtExists, modernizeTimer, modernized, clockVars, ajVars, lsVars, mcVars, lzVars,
                   swVars, tmVars, uxVars, icVars>>

\* A 600 ms timeout of toggleTheme: the button's bounce-animate class goes
BounceTimeout ==
    /\ bounceTimers > 0
    /\ bounceTimers' = bounceTimers - 1
    /\ toggleBounce' = FALSE
    /\ mtLast' = NoModernOp
    /\ UNCHANGED <<mtExists, mtCurrentTheme, mtDataTheme, modernThemeItem, mtLastSet,
                   modernizeTimer, modernized, clockVars, ajVars, lsVars, mcVars, lzVars,
                   swVars, tmVars, uxVars, icVars>>

\* The 100 ms timeout of the DOMContentLoaded listener:
\* window.modernTheme.modernizeExistingContent() and addModernBackground()
ModernizeTimeout ==
    /\ modernizeTimer
    /\ modernizeTimer' = FALSE
    /\ modernized' = TRUE
    /\ mtLast' = NoModernOp
    /\ UNCHANGED <<mtExists, mtCurrentTheme, mtDataTheme, modernThemeItem, mtLastSet,
                   toggleBounce, bounceTimers, clockVars, ajVars, lsVars, mcVars, lzVars,
                   swVars, tmVars, uxVars, icVars>>

\* The page is left or reloaded: the object, body's attribute and the
\* timers go, the stored item stays
ModernPageUnload ==
    /\ mtExists
    /\ mtExists' = FALSE
    /\ mtCurrentTheme' = NullItem
    /\ mtDataTheme' = NullItem
    /\ mtLast' = [op |-> "unload", from |-> mtCurrentTheme]
    /\ toggleBounce' = FALSE
    /\ bounceTimers' = 0
    /\ modernizeTimer' = FALSE
    /\ modernized' = FALSE
    /\ UNCHANGED <<modernThemeItem, mtLastSet, clockVars, ajVars, lsVars, mcVars, lzVars,
                   swVars, tmVars, uxVars, icVars>>

(***************************************************************************)
(* The page clock                                                          *)
(***************************************************************************)
\* No localStorage-cache operation in the step
NoCacheOp == [op |-> "none", key |-> "-", result |-> <<>>, before |-> <<>>]

PageClockInit ==
    /\ pageNow = 0
    /\ pageTicks = 0

\* Date.now() advances by d milliseconds
PageTick(d) ==
    /\ pageTicks < MaxPageTicks
    /\ pageTicks' = pageTicks + 1
    /\ pageNow' = pageNow + d
    /\ lsLast' = NoCacheOp
    /\ UNCHANGED <<lsItems, lsWritten, mtVars, ajVars, mcVars, lzVars,
                   swVars, tmVars, uxVars, icVars>>

(***************************************************************************)
(* ProgressMonitor and EnhancedAjaxHandler (modules/enhanced-ui.js)        *)
(* The pages carry the elements the handlers dereference: each form has    *)
(* its progress bar (data-progress="true"), its result container, and the  *)
(* chat form its textarea.                                                 *)
(***************************************************************************)
Forms == {"explanation", "chat"}

\* What the fetch of a submit can come to: the promise rejects, or resolves
\* with a response whose ok is false or true
FetchOutcomes == {"reject", "notok", "ok"}

AjaxInit ==
    /\ activeRequests = {}
    /\ hideTimers = <<>>
    /\ ajSubmits = <<>>
    /\ ajResult = [f \in Forms |-> 0]
    /\ chatMessage = ""
    /\ qualityRequests = 0
    /\ qualityShown = FALSE

\* startProgress(form): requestId = Date.now().toString(), entered into
\* activeRequests (simulateProgress only moves the progress bar)
startProgress == toString(pageNow)

\* completeProgress(requestId, success): nothing if the request is not
\* active, else the bar is settled and the 3000 ms hide timeout is set
completeProgress(requestId) ==
    IF requestId \in activeRequests THEN Append(hideTimers, requestId) ELSE hideTimers

\* The catch block of a submit handler
SubmitFailed(rec) ==
    [rec EXCEPT !.phase = "done",
                !.completes = Append(@, FALSE),
                !.notes = Append(@, "danger")]

AfterFetch_NoOkCheck(rec, outcome) ==
    IF outcome \in {"ok", "notok"}
    THEN [rec EXCEPT !.response = outcome, !.phase = "text"]
    ELSE SubmitFailed([rec EXCEPT !.response = outcome])

\* What follows await fetch(...): response.ok leads on to response.text(),
\* a rejection or a response that is not ok to the catch block
AfterFetch(rec, outcome) ==
    IF outcome = "ok"
    THEN [rec EXCEPT !.response = outcome, !.phase = "text"]
    ELSE SubmitFailed([rec EXCEPT !.response = outcome])

\* The user types into the chat textarea
TypeMessage ==
    /\ chatMessage = ""
    /\ chatMessage' = "text"
    /\ UNCHANGED <<activeRequests, hideTimers, ajSubmits, ajResult, qualityRequests,
                   qualityShown, mtVars, clockVars, lsVars, mcVars, lzVars,
                   swVars, tmVars, uxVars, icVars>>

\* submit on a form: the ProgressMonitor listener and the handler's own
\* startProgress(form) enter the request, then fetch(form.action) is sent
Submit(form) ==
    /\ Len(ajSubmits) < MaxSubmits
    /\ activeRequests' = activeRequests \cup {startProgress}
    /\ ajSubmits' = Append(ajSubmits,
                           [form |-> form, requestId |-> startProgress,
                            response |-> "pending", phase |-> "fetch",
                            completes |-> <<>>, notes |-> <<>>, wrote |-> FALSE])
    /\ UNCHANGED <<hideTimers, ajResult, chatMessage, qualityRequests, qualityShown,
                   mtVars, clockVars, lsVars, mcVars, lzVars,
                   swVars, tmVars, uxVars, icVars>>

\* The fetch of submit i settles
FetchSettles(i, outcome) ==
    /\ i \in 1..Len(ajSubmits)
    /\ ajSubmits[i].phase = "fetch"
    /\ ajSubmits' = [ajSubmits EXCEPT ![i] = AfterFetch(@, outcome)]
    /\ hideTimers' = IF ajSubmits'[i].phase = "done"
                     THEN completeProgress(ajSubmits[i].requestId)
                     ELSE hideTimers
    /\ UNCHANGED <<activeRequests, ajResult, chatMessage, qualityRequests, qualityShown,
                   mtVars, clockVars, lsVars, mcVars, lzVars,
                   swVars, tmVars, uxVars, icVars>>

\* response.text() of submit i settles: with the HTML the result container
\* is filled, the progress completed, the success notification shown, and
\* then the code-quality request sent (explanation) or the textarea cleared
\* (chat); a failed read of the body goes to the catch block
TextSettles(i, readOk) ==
    /\ i \in 1..Len(ajSubmits)
    /\ ajSubmits[i].phase = "text"
    /\ hideTimers' = completeProgress(ajSubmits[i].requestId)
    /\ IF readOk
       THEN /\ ajSubmits' = [ajSubmits EXCEPT ![i] =
                                [@ EXCEPT !.phase = "done",
                                          !.wrote = TRUE,
                                          !.completes = Append(@, TRUE),
                                          !.notes = Append(@, "success")]]
            /\ ajResult' = [ajResult EXCEPT ![ajSubmits[i].form] = i]
            /\ IF ajSubmits[i].form = "explanation"
               THEN /\ qualityRequests' = qualityRequests + 1
                    /\ UNCHANGED chatMessage
               ELSE /\ chatMessage' = ""
                    /\ UNCHANGED qualityRequests
       ELSE /\ ajSubmits' = [ajSubmits EXCEPT ![i] = SubmitFailed(@)]
            /\ UNCHANGED <<ajResult, chatMessage, qualityRequests>>
    /\ UNCHANGED <<activeRequests, qualityShown,
                   mtVars, clockVars, lsVars, mcVars, lzVars,
                   swVars, tmVars, uxVars, icVars>>

\* The 3000 ms timeout of completeProgress: the bar is hidden and the
\* request leaves activeRequests
HideTimeout ==
    /\ hideTimers # <<>>
    /\ hideTimers' = Tail(hideTimers)
    /\ activeRequests' = activeRequests \ {Head(hideTimers)}
    /\ UNCHANGED <<ajSubmits, ajResult, chatMessage, qualityRequests, qualityShown,
                   mtVars, clockVars, lsVars, mcVars, lzVars,
                   swVars, tmVars, uxVars, icVars>>

\* requestCodeQuality: its fetch settles; only an ok response is displayed,
\* every failure is caught and logged
QualityResponse(outcome) ==
    /\ qualityRequests > 0
    /\ qualityRequests' = qualityRequests - 1
    /\ qualityShown' = (qualityShown \/ outcome = "ok")
    /\ UNCHANGED <<activeRequests, hideTimers, ajSubmits, ajResult, chatMessage,
                   mtVars, clockVars, lsVars, mcVars, lzVars,
                   swVars, tmVars, uxVars, icVars>>

(***************************************************************************)
(* PerformanceOptimizer: the localStorage cache                            *)
(* (modules/performance-optimizer.js)                                      *)
(***************************************************************************)
maxLocalStorageAge == 24 * 60 * 60 * 1000

\* Keys and data the callers pass; the data are strings (of characters)
CacheKeys == {"a", "b"}
CacheData == {<<"x">>, <<"y", "z">>}

\* maxAge arguments; a call without maxAge takes maxLocalStorageAge
MaxAges == {0, 1, maxLocalStorageAge}

\* Clock advances of the localStorage-cache specification
DeltasCache == {1, maxLocalStorageAge}

\* JSON.stringify(cacheItem): the string in quotes, the numbers in decimal
StringifyCacheItem(cacheItem) ==
    [data |-> <<"\"">> \o cacheItem.data \o <<"\"">>,
     timestamp |-> toString(cacheItem.timestamp),
     maxAge |-> toString(cacheItem.maxAge)]

\* JSON.parse of such a text
ParseCacheItem(text) ==
    [data |-> SubSeq(text.data, 2, Len(text.data) - 1),
     timestamp |-> parseInt(text.timestamp),
     maxAge |-> parseInt(text.maxAge)]

\* An absent localStorage item (getItem returns null), and null as a result
NoItem == <<>>
Null == <<"<null>">>

LocalStorageCacheInit ==
    /\ lsItems = [k \in CacheKeys |-> NoItem]
    /\ lsWritten = [k \in CacheKeys |-> <<>>]
    /\ lsLast = NoCacheOp

\* cacheInLocalStorage(key, data, maxAge); stored is whether
\* localStorage.setItem succeeded (it throws when the quota is exceeded, and
\* the catch block returns false)
cacheInLocalStorage(key, data, maxAge, stored) ==
    LET cacheItem == [data |-> data, timestamp |-> pageNow, maxAge |-> maxAge]
    IN  /\ IF stored
           THEN /\ lsItems' = [lsItems EXCEPT ![key] = <<StringifyCacheItem(cacheItem)>>]
                /\ lsWritten' = [lsWritten EXCEPT ![key] = <<cacheItem>>]
           ELSE UNCHANGED <<lsItems, lsWritten>>
        /\ lsLast' = [op |-> "cache", key |-> key, result |-> <<stored>>,
                      before |-> lsItems]
        /\ UNCHANGED <<mtVars, clockVars, ajVars, mcVars, lzVars,
                       swVars, tmVars, uxVars, icVars>>

cacheItemExpired_AtLeast(age, maxAge) == age >= maxAge

\* The test age > cacheItem.maxAge of getFromLocalStorageCache
cacheItemExpired(age, maxAge) == age > maxAge

\* The items left by getFromLocalStorageCache(key), and what it returns
ItemsAfterGet(items, key) ==
    IF items[key] = NoItem THEN items
    ELSE LET cacheItem == ParseCacheItem(items[key][1])
         IN  IF cacheItemExpired(pageNow - cacheItem.timestamp, cacheItem.maxAge)
             THEN [items EXCEPT ![key] = NoItem]
             ELSE items

ResultOfGet(items, key) ==
    IF items[key] = NoItem THEN Null
    ELSE LET cacheItem == ParseCacheItem(items[key][1])
         IN  IF cacheItemExpired(pageNow - cacheItem.timestamp, cacheItem.maxAge)
             THEN Null
             ELSE cacheItem.data

getFromLocalStorageCache(key) ==
    /\ lsItems' = ItemsAfterGet(lsItems, key)
    /\ lsLast' = [op |-> "get", key |-> key, result |-> ResultOfGet(lsItems, key),
                  before |-> lsItems]
    /\ UNCHANGED <<lsWritten, mtVars, clockVars, ajVars, mcVars, lzVars,
                   swVars, tmVars, uxVars, icVars>>

\* clearExpiredCache(): getFromLocalStorageCache on every key with the prefix
clearExpiredCache ==
    /\ lsItems' = [k \in CacheKeys |-> ItemsAfterGet(lsItems, k)[k]]
    /\ lsLast' = [op |-> "clear", key |-> "-", result |-> <<>>, before |-> lsItems]
    /\ UNCHANGED <<lsWritten, mtVars, clockVars, ajVars, mcVars, lzVars,
                   swVars, tmVars, uxVars, icVars>>

(***************************************************************************)
(* PerformanceOptimizer: the memory cache                                  *)
(***************************************************************************)
maxMemoryCacheSize == 50 * 1024 * 1024

\* The data cached are strings of plain characters, told apart by their
\* length: a small one, one of exactly half the limit, one of exactly the
\* limit and one just over it
DataLengths == {5000000, 13107198, 26214398, 26214399}

\* Map keys; '' is a key like any other for Map, and falsy
MemoryKeys == {"", "a", "b"}

\* calculateObjectSize(obj): JSON.stringify of a string of plain characters
\* is the string in quotes
calculateObjectSize(length) == (length + 2) * 2

MemoryCacheInit ==
    /\ memoryCache = <<>>
    /\ memoryCacheSize = 0
    /\ mcCalls = 0

\* The while loop of cacheInMemory: entries leave from the front of the Map
\* until the new size fits, or the first key is falsy (undefined for an empty
\* Map, or ''); the result is <<entries, memoryCacheSize>>
RECURSIVE MakeRoom(_, _, _)
MakeRoom(entries, cacheSize, size) ==
    IF cacheSize + size > maxMemoryCacheSize
    THEN IF entries # <<>> /\ entries[1].key # ""
         THEN MakeRoom(Tail(entries), cacheSize - calculateObjectSize(entries[1].data), size)
         ELSE <<entries, cacheSize>>
    ELSE <<entries, cacheSize>>

\* Map.prototype.set: a key already present keeps its place and takes the
\* new value, a new key goes to the end
MapSet(entries, key, data) ==
    IF \E i \in 1..Len(entries) : entries[i].key = key
    THEN [i \in 1..Len(entries) |->
             IF entries[i].key = key THEN [key |-> key, data |-> data] ELSE entries[i]]
    ELSE Append(entries, [key |-> key, data |-> data])

cacheInMemory(key, data) ==
    /\ mcCalls < MaxCalls
    /\ mcCalls' = mcCalls + 1
    /\ LET size == calculateObjectSize(data)
           room == MakeRoom(memoryCache, memoryCacheSize, size)
       IN  IF size > maxMemoryCacheSize
           THEN UNCHANGED <<memoryCache, memoryCacheSize>>
           ELSE /\ memoryCache' = MapSet(room[1], key, data)
                /\ memoryCacheSize' = room[2] + size
    /\ UNCHANGED <<mtVars, clockVars, ajVars, lsVars, lzVars,
                   swVars, tmVars, uxVars, icVars>>

(***************************************************************************)
(* PerformanceOptimizer: lazy image loading                                *)
(***************************************************************************)
\* The lazy <img data-src> elements: 1 and 2 are in the page when the
\* optimizer is set up and share a source, 3 and 4 are inserted later, 4
\* with a source of its own
ImageIds == 1..4
DataSrc == <<"p.png", "p.png", "p.png", "q.png">>
InsertedLater == {3, 4}

Placeholder == "data:placeholder"
ErrorPlaceholder == "data:error"

\* An element setupImageLazyLoading (or its MutationObserver) has taken up:
\* the placeholder as src, observed by the 'images' IntersectionObserver
Observed == [attached |-> TRUE, src |-> Placeholder, classes |-> {},
             observed |-> TRUE, intersected |-> FALSE, loading |-> FALSE]
Detached == [attached |-> FALSE, src |-> "", classes |-> {},
             observed |-> FALSE, intersected |-> FALSE, loading |-> FALSE]

LazyInit ==
    /\ images = [i \in ImageIds |-> IF i \in InsertedLater THEN Detached ELSE Observed]
    /\ imageCache = {}

\* An <img data-src> is added to the document: the MutationObserver callback
\* of setupImageLazyLoading
InsertImage(i) ==
    /\ ~images[i].attached
    /\ images' = [images EXCEPT ![i] = Observed]
    /\ UNCHANGED <<imageCache, mtVars, clockVars, ajVars, lsVars, mcVars,
                   swVars, tmVars, uxVars, icVars>>

\* loadImage(img) up to its await: nothing if the source is in imageCache,
\* else class 'loading' and the preload of the source is started
loadImage(img, i) ==
    IF DataSrc[i] \in imageCache
    THEN img
    ELSE [img EXCEPT !.classes = @ \cup {"loading"}, !.loading = TRUE]

\* The IntersectionObserver callback with the entries of the elements S that
\* have come into view together: loadImage and unobserve for each
Intersect(S) ==
    /\ S # {}
    /\ \A i \in S : images[i].observed
    /\ images' = [i \in ImageIds |->
                     IF i \in S
                     THEN [loadImage(images[i], i) EXCEPT !.observed = FALSE,
                                                          !.intersected = TRUE]
                     ELSE images[i]]
    /\ UNCHANGED <<imageCache, mtVars, clockVars, ajVars, lsVars, mcVars,
                   swVars, tmVars, uxVars, icVars>>

\* The preload of element i settles: onload continues loadImage, onerror
\* takes it to the catch block
PreloadSettles(i, loaded) ==
    /\ images[i].loading
    /\ IF loaded
       THEN /\ imageCache' = imageCache \cup {DataSrc[i]}
            /\ images' = [images EXCEPT ![i] =
                             [@ EXCEPT !.loading = FALSE,
                                       !.src = DataSrc[i],
                                       !.classes = (@ \ {"loading"}) \cup {"loaded"}]]
       ELSE /\ imageCache' = imageCache
            /\ images' = [images EXCEPT ![i] =
                             [@ EXCEPT !.loading = FALSE,
                                       !.src = ErrorPlaceholder,
                                       !.classes = (@ \ {"loading"}) \cup {"error"}]]
    /\ UNCHANGED <<mtVars, clockVars, ajVars, lsVars, mcVars,
                   swVars, tmVars, uxVars, icVars>>

(***************************************************************************)
(* Specifications                                                          *)
(***************************************************************************)
\* The page-side objects before any of their scripts has acted
PageInit(storedThemes) ==
    /\ MTInit(storedThemes)
    /\ PageClockInit
    /\ AjaxInit
    /\ LocalStorageCacheInit
    /\ MemoryCacheInit
    /\ LazyInit

\* The service worker and the other managers, not on the page
OthersInit ==
    /\ SWInit({"immutable"})
    /\ TMInit({NullItem}, {{}})
    /\ UXInit({FALSE})
    /\ ICInit

(***************************************************************************)
(* SpecSW: the service worker driven by its events.  The fetch events are  *)
(* for the document, an API URL (GET and POST), an image and a data: URL.  *)
(***************************************************************************)
EventRequests == {r \in Requests : r.url \in {1, 2, 3, 5}}
DeltasSW == {1, CACHE_EXPIRY_static}

NextSW ==
    \/ SWEnvironment
    \/ \E d \in DeltasSW : Tick(d)
    \/ \E r \in EventRequests, net \in NetOutcomes : FetchEvent(r, net)

InitSW ==
    /\ SWInit({"immutable", "none"})
    /\ TMInit({NullItem}, {{}})
    /\ UXInit({FALSE})
    /\ ICInit
    /\ PageInit({NullItem})

SpecSW == InitSW /\ [][NextSW]_vars

(***************************************************************************)
(* SpecHandlers: the image, dynamic and API strategies called directly,    *)
(* each on a request of its own class (the fetch listener never reaches    *)
(* them, see Route).                                                       *)
(***************************************************************************)
ImageInputs == {r \in Requests : r.url = 3}
DynamicInputs == {r \in Requests : r.url = 4}
ApiInputs == {r \in Requests : r.url = 2 /\ r.method = "GET"}
DeltasHandlers == {1, CACHE_EXPIRY_api, CACHE_EXPIRY_dynamic, CACHE_EXPIRY_images}

CallHandler(handler, request, net) ==
    /\ swState = "activated"
    /\ RunHandler(handler, request, net)
    /\ UNCHANGED <<swState, now, ticks, headersGuard, tmVars, uxVars, icVars, pgVars>>

NextHandlers ==
    \/ SWEnvironment
    \/ \E d \in DeltasHandlers : Tick(d)
    \/ \E r \in ImageInputs, net \in NetOutcomes : CallHandler("image", r, net)
    \/ \E r \in DynamicInputs, net \in NetOutcomes : CallHandler("dynamic", r, net)
    \/ \E r \in ApiInputs, net \in NetOutcomes : CallHandler("api", r, net)

SpecHandlers == InitSW /\ [][NextHandlers]_vars

NextTheme ==
    \/ NewThemeManager
    \/ \E t \in ThemeNames : setTheme(t)

\* The page's HTML gives body no theme class or theme-classic; localStorage
\* may hold any value from an earlier visit or another script
InitTheme ==
    /\ SWInit({"immutable"})
    /\ TMInit(ThemeNames \cup {NullItem}, {{}, {"classic"}})
    /\ UXInit({FALSE})
    /\ ICInit
    /\ PageInit({NullItem})

SpecTheme == InitTheme /\ [][NextTheme]_vars

\* SpecUX: a page with ux-enhancer.js
NextUX ==
    \/ UXPageLoad
    \/ NewUXEnhancer
    \/ \E key \in PreferenceKeys : \E value \in PreferenceValues(key) : updatePreference(key, value)
    \/ \E combo \in ShortcutCombos : KeyDown(combo)

InitUX ==
    /\ SWInit({"immutable"})
    /\ TMInit({NullItem}, {{}})
    /\ UXInit(BOOLEAN)
    /\ ICInit
    /\ PageInit({NullItem})

SpecUX == InitUX /\ [][NextUX]_vars

\* SpecIcon: a page with icon-manager.js
NextIcon ==
    \/ EvaluateIconManagerScript
    \/ \E i \in icInitTimers, loaded \in BOOLEAN : InitTimeout(i, loaded)
    \/ \E content \in FaContents : CheckTimeout(content)
    \/ DOMContentLoaded
    \/ WindowLoad
    \/ RefreshTimeout
    \/ \E loaded \in BOOLEAN : LoadTimeout(loaded)
    \/ toggleIconMode

InitIcon ==
    /\ SWInit({"immutable"})
    /\ TMInit({NullItem}, {{}})
    /\ UXInit({FALSE})
    /\ ICInit
    /\ PageInit({NullItem})

SpecIcon == InitIcon /\ [][NextIcon]_vars

\* SpecModern: a page with modern-ui.js; localStorage may hold a theme from
\* an earlier visit, or an empty item
NextModern ==
    \/ NewModernThemeSystem
    \/ \E theme \in ModernThemes : CallSetTheme(theme)
    \/ toggleTheme
    \/ BounceTimeout
    \/ ModernizeTimeout
    \/ ModernPageUnload

InitModern ==
    /\ OthersInit
    /\ PageInit(ModernThemes \cup {NullItem, ""})

SpecModern == InitModern /\ [][NextModern]_vars

\* SpecAjax: the explanation and chat forms
NextAjax ==
    \/ PageTick(1)
    \/ TypeMessage
    \/ \E form \in Forms : Submit(form)
    \/ \E i \in 1..MaxSubmits, outcome \in FetchOutcomes : FetchSettles(i, outcome)
    \/ \E i \in 1..MaxSubmits, readOk \in BOOLEAN : TextSettles(i, readOk)
    \/ HideTimeout
    \/ \E outcome \in FetchOutcomes : QualityResponse(outcome)

InitPage ==
    /\ OthersInit
    /\ PageInit({NullItem})

SpecAjax == InitPage /\ [][NextAjax]_vars

\* SpecCache: the localStorage cache
NextCache ==
    \/ \E d \in DeltasCache : PageTick(d)
    \/ \E key \in CacheKeys, data \in CacheData, maxAge \in MaxAges, stored \in BOOLEAN :
          cacheInLocalStorage(key, data, maxAge, stored)
    \/ \E key \in CacheKeys : getFromLocalStorageCache(key)
    \/ clearExpiredCache

SpecCache == InitPage /\ [][NextCache]_vars

\* SpecMemory: the memory cache
NextMemory ==
    \E key \in MemoryKeys, data \in DataLengths : cacheInMemory(key, data)

SpecMemory == InitPage /\ [][NextMemory]_vars

\* SpecLazy: lazy image loading
NextLazy ==
    \/ \E i \in ImageIds : InsertImage(i)
    \/ \E S \in SUBSET ImageIds : Intersect(S)
    \/ \E i \in ImageIds, loaded \in BOOLEAN : PreloadSettles(i, loaded)

SpecLazy == InitPage /\ [][NextLazy]_vars

(***************************************************************************)
(* Properties of the service worker                                        *)
(***************************************************************************)
Handled == last.req # NoRequest

\* CACHE_EXPIRY of the class a handler serves
ExpiryOf(handler) ==
    CASE handler = "static" -> CACHE_EXPIRY_static
      [] handler = "image" -> CACHE_EXPIRY_images
      [] handler = "dynamic" -> CACHE_EXPIRY_dynamic
      [] OTHER -> CACHE_EXPIRY_api

\* C1: every intercepted GET request whose URL contains '/api/' is answered
\* by handleApiRequest, network first: the cache answers only after the
\* fetch has failed.
C1_ApiRequestsNetworkFirst ==
    (/\ Handled
     /\ last.req.method = "GET"
     /\ StartsWith(UrlText[last.req.url], <<"h","t","t","p">>)
     /\ Includes(UrlText[last.req.url], <<"/","a","p","i","/">>))
    => (/\ last.handler = "api"
        /\ (last.out = "cached" => last.net = "fail"))

C3_PrecachedServedFromCache ==
    (/\ last.handler = "static"
     /\ last.req.url \in PrecachedUrlIds
     /\ Present(last.hit)
     /\ now - last.hit.at <= CACHE_EXPIRY_static)
    => (last.out = "cached" /\ last.net = "none")

\* C4: no handler returns a cached response that lacks X-Cache-Timestamp or
\* that is older than the CACHE_EXPIRY of its class.
C4_NoExpiredCachedResponse ==
    last.out = "cached"
    => (/\ last.hit.ts # NoTs
        /\ now - last.hit.at <= ExpiryOf(last.handler))

SkippedRequest(request) ==
    \/ request.method # "GET"
    \/ ~StartsWith(UrlText[request.url], <<"h","t","t","p">>)

C6_SkippedRequestsTouchNothing ==
    [][(last'.req # NoRequest /\ SkippedRequest(last'.req))
        => (/\ ~last'.responded
            /\ ~last'.reads
            /\ caches' = caches)]_vars

C6_Witness ==
    /\ Handled
    /\ last.req.method = "POST"
    /\ ~last.responded
    /\ Present(caches[STATIC_CACHE][1])

(***************************************************************************)
(* Properties of the ThemeManager                                          *)
(***************************************************************************)
\* C7: after setTheme(t) with t a key of themes the stored preference is t,
\* and a ThemeManager constructed on that localStorage has currentTheme = t
\* and body carries theme-t; a stored value that is not a key of themes is
\* ignored and currentTheme stays 'classic'.
C7_ThemePersists ==
    /\ (tmLast.op = "setTheme" /\ tmLast.arg \in ThemeKeys)
       => preferredTheme = tmLast.arg
    /\ tmLast.op = "construct"
       => IF preferredTheme \in ThemeKeys
          THEN currentTheme = preferredTheme /\ preferredTheme \in bodyThemes
          ELSE currentTheme = "classic"

\* C8: once a ThemeManager exists, body carries exactly one class theme-<key>
\* with key in themes, and it is theme-<currentTheme>.
C8_OneThemeClass ==
    tmExists => (bodyThemes \cap ThemeKeys) = {currentTheme}

(***************************************************************************)
(* Properties of the UXEnhancer                                            *)
(***************************************************************************)
\* The theme preference stored in 'ux_preferences' (Undefined if none)
StoredTheme(item) ==
    IF item = <<>> THEN Undefined
    ELSE MergeParsed(NoPreferences, item[1])["theme"]

C10_OneIconManager ==
    icInstances # <<>>
    => (/\ Len(icInstances) = 1
        /\ icDclListeners = 1)

\* The manager the page uses, window.iconManager, is in emoji mode
WindowManagerEmoji ==
    windowIconManager # 0 /\ icInstances[windowIconManager].isEmojiModeActive

\* C11: when the checkFontAwesome timeout finds the test icon's ::before
\* content empty, 'none' or 'normal', the check ends with emoji fallback
\* active (isEmojiModeActive true, body carries icon-fallback-active); and in
\* every state body carries icon-fallback-active if and only if
\* isEmojiModeActive is true.
C11_EmojiFallbackConsistent ==
    /\ icLast.content \in {"", "none", "normal"}
       => (bodyIconFallback /\ WindowManagerEmoji)
    /\ bodyIconFallback <=> WindowManagerEmoji

C13_OneOutcomePerSubmit ==
    \A i \in 1..Len(ajSubmits) :
        LET rec == ajSubmits[i]
        IN  IF rec.phase = "done"
            THEN /\ Len(rec.completes) = 1
                 /\ Len(rec.notes) = 1
                 /\ rec.completes[1] <=> rec.notes[1] = "success"
                 /\ ~rec.completes[1] => (rec.notes[1] = "danger" /\ ~rec.wrote)
                 /\ rec.completes[1] => rec.response = "ok"
                 /\ rec.response \in {"reject", "notok"} => ~rec.completes[1]
            ELSE rec.completes = <<>> /\ rec.notes = <<>> /\ ~rec.wrote

\* C13 witness: one submit ended in failure on a response that was not ok,
\* another in success
C13_Witness ==
    \E i, j \in 1..Len(ajSubmits) :
        /\ ajSubmits[i].response = "notok" /\ ajSubmits[i].completes = <<FALSE>>
        /\ ajSubmits[j].completes = <<TRUE>> /\ ajResult[ajSubmits[j].form] = j

(***************************************************************************)
(* Properties of the PerformanceOptimizer                                  *)
(***************************************************************************)
\* C14: getFromLocalStorageCache(key) returns the data of the latest
\* cacheInLocalStorage(key, data, maxAge) that stored its item if and only
\* if at most maxAge milliseconds have passed since that write; otherwise it
\* returns null and the key's entry is gone, and the entries of all other
\* keys are as before.
C14_LocalStorageCacheTTL ==
    lsLast.op = "get"
    => LET key == lsLast.key
           written == lsWritten[key]
       IN  IF written # <<>> /\ pageNow - written[1].timestamp <= written[1].maxAge
           THEN /\ lsLast.result = written[1].data
                /\ lsItems = lsLast.before
           ELSE /\ lsLast.result = Null
                /\ lsItems = [lsLast.before EXCEPT ![key] = NoItem]

\* C14 witness: a read after the item's maxAge removed the entry while the
\* other key's entry stayed
C14_Witness ==
    /\ lsLast.op = "get"
    /\ lsLast.before[lsLast.key] # NoItem
    /\ lsItems[lsLast.key] = NoItem
    /\ \E k \in CacheKeys : lsItems[k] # NoItem

\* C14 witness of the other side: a read exactly maxAge (> 0) milliseconds
\* after the write returned the data
C14_WitnessFresh ==
    /\ lsLast.op = "get"
    /\ lsWritten[lsLast.key] # <<>>
    /\ lsLast.result = lsWritten[lsLast.key][1].data
    /\ pageNow - lsWritten[lsLast.key][1].timestamp = lsWritten[lsLast.key][1].maxAge
    /\ pageNow > lsWritten[lsLast.key][1].timestamp

\* C15: memoryCacheSize never exceeds maxMemoryCacheSize.
C15_MemoryCacheWithinLimit ==
    memoryCacheSize <= maxMemoryCacheSize

\* The sum of calculateObjectSize over the entries held
RECURSIVE HeldSize(_)
HeldSize(entries) ==
    IF entries = <<>> THEN 0
    ELSE calculateObjectSize(entries[1].data) + HeldSize(Tail(entries))

\* C16: memoryCacheSize equals the sum of calculateObjectSize over the
\* entries currently held in memoryCache.
C16_MemoryCacheSizeExact ==
    memoryCacheSize = HeldSize(memoryCache)

\* C17: an observed image that has intersected the viewport and whose load
\* is not in flight has src equal to its data-src and class 'loaded', or
\* class 'error' and the error placeholder.
C17_LazyImagesComplete ==
    \A i \in ImageIds :
        (images[i].intersected /\ ~images[i].loading)
        => \/ (images[i].src = DataSrc[i] /\ "loaded" \in images[i].classes)
           \/ (images[i].src = ErrorPlaceholder /\ "error" \in images[i].classes)

====
